---- MODULE Spec2Model ----
(***************************************************************************)
(* Model of opengb/server.py: the bridge between the websocket front end   *)
(* and the printer process.  The front end is one tornado IOLoop thread,   *)
(* so every callback (open, on_close, on_message, StatusHandler.get, the   *)
(* two PeriodicCallbacks) is one atomic action.  The printer process shows *)
(* up only as the producer of from_printer.                                *)
(*                                                                         *)
(* JSON / Python values are tagged records:                                *)
(*   [t |-> "null"]  [t |-> "bool", v]  [t |-> "num", v]  [t |-> "str", v] *)
(*   [t |-> "obj", v |-> function from keys to values]      (a dict)       *)
(*   [t |-> "objtext", members |-> sequence of <<key, text>>] (JSON text   *)
(*   of an object, as it travels through a multiprocessing.Queue)          *)
(*   [t |-> "State", v]   a member of the enum opengb.printer.State        *)
(***************************************************************************)
EXTENDS Integers, Sequences, FiniteSets, TLC

\* ---------------------------------------------------------------- bounds
MaxConns == 2       \* websocket connections ever opened
MaxEvents == 2      \* events the printer process ever puts on from_printer
MaxReqs == 1        \* JSON-RPC requests ever handled by on_message, in Spec
MaxTicks == 1       \* runs of the update_counters callback
MaxCmds == 2        \* printer commands ever requested, in SpecCmd
MaxFileReqs == 3    \* uploads and fetches ever requested, in SpecFiles
MaxStep == 3        \* largest count given to update_counters, in SpecCounters

Conns == 1..MaxConns

\* ----------------------------------------------------------- JSON values
Null == [t |-> "null"]
Bool(b) == [t |-> "bool", v |-> b]
Num(n) == [t |-> "num", v |-> n]
Str(s) == [t |-> "str", v |-> s]
Obj(f) == [t |-> "obj", v |-> f]
ObjText(ms) == [t |-> "objtext", members |-> ms]

\* json.loads: an object's text becomes a dict (the last duplicate of a key
\* wins), every other text is the value it denotes.
RECURSIVE json_loads(_)
json_loads(w) ==
    IF w.t # "objtext" THEN w
    ELSE LET ms == w.members
             keys == {ms[i][1] : i \in DOMAIN ms}
             last(k) == CHOOSE i \in DOMAIN ms :
                            /\ ms[i][1] = k
                            /\ \A j \in DOMAIN ms : ms[j][1] = k => j <= i
         IN Obj([k \in keys |-> json_loads(ms[last(k)][2])])

\* The order in which json.dumps writes the keys of the dicts server.py
\* serialises (the order of the dict literals in the source).
KeyOrder == <<"method", "params", "bed", "nozzle1", "nozzle2", "x", "y", "z",
              "cmd", "new", "state", "temp", "progress", "current", "total",
              "jsonrpc", "result", "error", "id", "name", "size", "content",
              "gcode_files", "counters", "uptime", "prints">>

\* json.dumps: a dict becomes the text of an object, its members in the
\* dict's order.
RECURSIVE json_dumps(_)
json_dumps(d) ==
    IF d.t # "obj" THEN d
    ELSE LET ks == SelectSeq(KeyOrder, LAMBDA k : k \in DOMAIN d.v)
         IN ObjText([i \in 1..Len(ks) |-> <<ks[i], json_dumps(d.v[ks[i]])>>])

\* Python's v[k] for a str key k: TypeError unless v is a dict, KeyError
\* when the dict has no such key.
GetItem(v, k) ==
    IF v.t # "obj" THEN [exc |-> "TypeError", val |-> Null]
    ELSE IF k \notin DOMAIN v.v THEN [exc |-> "KeyError", val |-> Null]
    ELSE [exc |-> "none", val |-> v.v[k]]

\* --------------------------------------------------- opengb.printer.State
\* The enum member for a value, and its JSON encoding by StateEncoder.
State(value) == [t |-> "State", v |-> value]
StateEncoder(member) == member.v

DISCONNECTED == State(Str("DISCONNECTED"))

\* ------------------------------------------------------------- logging
\* The levels of LOGGER.error and LOGGER.info.
ERROR == 40
INFO == 20
LogRecord(level, msg) == [level |-> level, msg |-> msg]

\* ------------------------------------------------- inbound event payloads
Ev(kind, params) == ObjText(<< <<"event", Str(kind)>>, <<"params", params>> >>)

WellFormedEvents == {
    Ev("state_change", ObjText(<< <<"new", Str("READY")>> >>)),
    Ev("state_change", ObjText(<< <<"new", Str("PRINTING")>> >>)),
    Ev("temp_update", ObjText(<< <<"bed", Num(60)>>, <<"nozzle1", Num(200)>>,
                                 <<"nozzle2", Num(0)>> >>)),
    Ev("print_progress", ObjText(<< <<"current", Num(1)>>, <<"total", Num(2)>> >>)),
    Ev("z_change", ObjText(<< <<"z", Num(1)>> >>)),
    Ev("log", ObjText(<< <<"level", Num(INFO)>>, <<"msg", Str("m")>> >>)),
    Ev("other", ObjText(<<>>)) }

\* Events that lack an expected field, or are not an object at all.
MalformedEvents == {
    ObjText(<< <<"params", ObjText(<< <<"new", Str("READY")>> >>)>> >>),
    ObjText(<< <<"event", Str("state_change")>> >>),
    Ev("state_change", ObjText(<<>>)),
    Ev("log", ObjText(<< <<"level", Num(INFO)>> >>)),
    Ev("temp_update", ObjText(<< <<"bed", Num(60)>> >>)),
    Null }

WireEvents == WellFormedEvents \cup MalformedEvents

VARIABLES
    from_printer,   \* multiprocessing.Queue printer -> server: JSON texts
    to_printer,     \* multiprocessing.Queue server -> printer: JSON texts
    PRINTER,        \* the cached snapshot: state, temp, progress
    CLIENTS,        \* the registry: a list of connections
    opened,         \* connections whose open() has run
    received,       \* per connection, what write_message was given, in order
    logged,         \* records handed to LOGGER
    drained,        \* texts the drain task has taken from from_printer
    exc,            \* exception that escaped the last callback, or "none"
    gcode_table,    \* ODB.GCodeFile: the metadata records, in creation order
    gcode_dir,      \* options.gcode_dir: file name (the id) -> bytes
    counters,       \* ODB.Counter: name -> count
    http_out,       \* body of the last /api/status response
    handled,        \* the requests on_message has handled, with their connection
    env             \* what the environment did to the last broadcast

vars == <<from_printer, to_printer, PRINTER, CLIENTS, opened, received,
          logged, drained, exc, gcode_table, gcode_dir, counters, http_out,
          handled, env>>

\* The module globals and the connections' transports, as one value the
\* functions below take and return.
Globals == [PRINTER |-> PRINTER, CLIENTS |-> CLIENTS, received |-> received,
            logged |-> logged]

Commit(g) ==
    /\ PRINTER' = g.PRINTER
    /\ CLIENTS' = g.CLIENTS
    /\ received' = g.received
    /\ logged' = g.logged

Log(g, level, msg) == [g EXCEPT !.logged = Append(@, LogRecord(Num(level), Str(msg)))]

\* list.remove(x): drops the first occurrence of x.
Remove(list, x) ==
    LET i == CHOOSE j \in DOMAIN list :
                 list[j] = x /\ \A k \in DOMAIN list : list[k] = x => j <= k
    IN SubSeq(list, 1, i - 1) \o SubSeq(list, i + 1, Len(list))

\* What the environment does to a broadcast: write_message raises for the
\* connections in failing, and the connections in closing disconnect
\* (on_close runs) as they are written to.
NoFault == [failing |-> {}, closing |-> {}]

\* WebSocketHandler.write_message: the message goes to connection c.  seen
\* records the snapshot as it is when the write happens.
write_message(g, c, message) ==
    [g EXCEPT !.received[c] = Append(@, [msg |-> message, seen |-> g.PRINTER])]

Greeting(state) ==
    json_dumps(Obj([cmd |-> Str("STATE"), new |-> StateEncoder(state)]))

\* Faulty variant: the greeting names the state the server started in.
open_initial_state(g, c) ==
    LET g1 == Log(g, INFO, "New connection")
        g2 == [g1 EXCEPT !.CLIENTS = Append(@, c)]
    IN write_message(g2, c, Greeting(DISCONNECTED))

open(g, c) ==
    LET g1 == Log(g, INFO, "New connection")
        g2 == [g1 EXCEPT !.CLIENTS = Append(@, c)]
    IN write_message(g2, c, Greeting(g2.PRINTER.state))

\* Faulty variant: the connection stays in the registry.
on_close_keep(g, c) == Log(g, INFO, "Connection closed")

on_close(g, c) ==
    LET g1 == Log(g, INFO, "Connection closed")
    IN [g1 EXCEPT !.CLIENTS = Remove(@, c)]

\* for each in CLIENTS: each.write_message(message).  The list iterator
\* holds an index into the live list and stops when the index passes its
\* current length.
RECURSIVE broadcast_from(_, _, _, _)
broadcast_from(i, g, message, fault) ==
    IF i > Len(g.CLIENTS) THEN [g |-> g, exc |-> "none"]
    ELSE LET each == g.CLIENTS[i]
         IN IF each \in fault.failing
            THEN [g |-> g, exc |-> "WebSocketClosedError"]
            ELSE LET g1 == write_message(g, each, message)
                     g2 == IF each \in fault.closing THEN on_close(g1, each)
                           ELSE g1
                 IN broadcast_from(i + 1, g2, message, fault)

\* Faulty variant: the iteration starts at the second connection.
broadcast_message_skip(g, message, fault) == broadcast_from(2, g, message, fault)

broadcast_message(g, message, fault) == broadcast_from(1, g, message, fault)

\* The members of opengb.printer.State the documentation names.
KnownStates == {Str("DISCONNECTED"), Str("READY"), Str("PRINTING"),
                Str("PAUSED"), Str("ERROR")}

\* Faulty variant: a state_change whose new is not a known state is ignored.
process_event_try_validating(g, event) ==
    LET kind == GetItem(event, "event")
        params == GetItem(event, "params")
        new == GetItem(params.val, "new")
    IN IF kind.exc # "none" THEN [g |-> g, exc |-> kind.exc]
       ELSE IF kind.val = Str("state_change")
       THEN IF params.exc # "none" THEN [g |-> g, exc |-> params.exc]
            ELSE IF new.exc # "none" THEN [g |-> g, exc |-> new.exc]
            ELSE IF new.val \notin KnownStates THEN [g |-> g, exc |-> "none"]
            ELSE [g |-> [g EXCEPT !.PRINTER.state = State(new.val)],
                  exc |-> "none"]
       ELSE IF kind.val = Str("temp_update")
       THEN IF params.exc # "none" THEN [g |-> g, exc |-> params.exc]
            ELSE [g |-> [g EXCEPT !.PRINTER.temp = params.val], exc |-> "none"]
       ELSE IF kind.val = Str("print_progress")
       THEN IF params.exc # "none" THEN [g |-> g, exc |-> params.exc]
            ELSE [g |-> [g EXCEPT !.PRINTER.progress = params.val],
                  exc |-> "none"]
       ELSE [g |-> g, exc |-> "none"]

\* Faulty variant: a state_change also resets the progress.
process_event_try_reset(g, event) ==
    LET kind == GetItem(event, "event")
        params == GetItem(event, "params")
        new == GetItem(params.val, "new")
    IN IF kind.exc # "none" THEN [g |-> g, exc |-> kind.exc]
       ELSE IF kind.val = Str("state_change")
       THEN IF params.exc # "none" THEN [g |-> g, exc |-> params.exc]
            ELSE IF new.exc # "none" THEN [g |-> g, exc |-> new.exc]
            ELSE [g |-> [g EXCEPT !.PRINTER.state = State(new.val),
                                  !.PRINTER.progress =
                                      Obj([current |-> Num(0), total |-> Num(0)])],
                  exc |-> "none"]
       ELSE IF kind.val = Str("temp_update")
       THEN IF params.exc # "none" THEN [g |-> g, exc |-> params.exc]
            ELSE [g |-> [g EXCEPT !.PRINTER.temp = params.val], exc |-> "none"]
       ELSE IF kind.val = Str("print_progress")
       THEN IF params.exc # "none" THEN [g |-> g, exc |-> params.exc]
            ELSE [g |-> [g EXCEPT !.PRINTER.progress = params.val],
                  exc |-> "none"]
       ELSE [g |-> g, exc |-> "none"]

process_event_try(g, event) ==
    LET kind == GetItem(event, "event")
        params == GetItem(event, "params")
        new == GetItem(params.val, "new")
    IN IF kind.exc # "none" THEN [g |-> g, exc |-> kind.exc]
       ELSE IF kind.val = Str("state_change")
       THEN IF params.exc # "none" THEN [g |-> g, exc |-> params.exc]
            ELSE IF new.exc # "none" THEN [g |-> g, exc |-> new.exc]
            ELSE [g |-> [g EXCEPT !.PRINTER.state = State(new.val)],
                  exc |-> "none"]
       ELSE IF kind.val = Str("temp_update")
       THEN IF params.exc # "none" THEN [g |-> g, exc |-> params.exc]
            ELSE [g |-> [g EXCEPT !.PRINTER.temp = params.val], exc |-> "none"]
       ELSE IF kind.val = Str("print_progress")
       THEN IF params.exc # "none" THEN [g |-> g, exc |-> params.exc]
            ELSE [g |-> [g EXCEPT !.PRINTER.progress = params.val],
                  exc |-> "none"]
       ELSE [g |-> g, exc |-> "none"]

process_event(g, event) ==
    LET r == process_event_try(g, event)
    IN IF r.exc = "KeyError"
       THEN [g |-> Log(r.g, ERROR, "Malformed event from printer"),
             exc |-> "none"]
       ELSE r

\* Faulty variant: log events are broadcast like the others.
drain_try_log_broadcast(g, event, fault) ==
    LET kind == GetItem(event, "event")
        sent == broadcast_message(g, event, fault)
    IN IF kind.exc # "none" THEN [g |-> g, exc |-> kind.exc]
       ELSE IF sent.exc # "none" THEN sent
       ELSE process_event(sent.g, event)

\* Faulty variant: the event is applied to the snapshot before it is broadcast.
drain_try_apply_first(g, event, fault) ==
    LET kind == GetItem(event, "event")
        params == GetItem(event, "params")
        level == GetItem(params.val, "level")
        msg == GetItem(params.val, "msg")
        applied == process_event(g, event)
    IN IF kind.exc # "none" THEN [g |-> g, exc |-> kind.exc]
       ELSE IF kind.val = Str("log")
       THEN IF params.exc # "none" THEN [g |-> g, exc |-> params.exc]
            ELSE IF level.exc # "none" THEN [g |-> g, exc |-> level.exc]
            ELSE IF msg.exc # "none" THEN [g |-> g, exc |-> msg.exc]
            ELSE [g |-> [g EXCEPT !.logged =
                             Append(@, LogRecord(level.val, msg.val))],
                  exc |-> "none"]
       ELSE IF applied.exc # "none" THEN applied
       ELSE broadcast_message(applied.g, event, fault)

\* Faulty variant: the event is broadcast but never applied to the snapshot.
drain_try_broadcast_only(g, event, fault) ==
    LET kind == GetItem(event, "event")
        params == GetItem(event, "params")
        level == GetItem(params.val, "level")
        msg == GetItem(params.val, "msg")
    IN IF kind.exc # "none" THEN [g |-> g, exc |-> kind.exc]
       ELSE IF kind.val = Str("log")
       THEN IF params.exc # "none" THEN [g |-> g, exc |-> params.exc]
            ELSE IF level.exc # "none" THEN [g |-> g, exc |-> level.exc]
            ELSE IF msg.exc # "none" THEN [g |-> g, exc |-> msg.exc]
            ELSE [g |-> [g EXCEPT !.logged =
                             Append(@, LogRecord(level.val, msg.val))],
                  exc |-> "none"]
       ELSE broadcast_message(g, event, fault)

\* The try block of process_printer_events, for the parsed event.
drain_try(g, event, fault) ==
    LET kind == GetItem(event, "event")
        params == GetItem(event, "params")
        level == GetItem(params.val, "level")
        msg == GetItem(params.val, "msg")
        sent == broadcast_message(g, event, fault)
    IN IF kind.exc # "none" THEN [g |-> g, exc |-> kind.exc]
       ELSE IF kind.val = Str("log")
       THEN IF params.exc # "none" THEN [g |-> g, exc |-> params.exc]
            ELSE IF level.exc # "none" THEN [g |-> g, exc |-> level.exc]
            ELSE IF msg.exc # "none" THEN [g |-> g, exc |-> msg.exc]
            ELSE [g |-> [g EXCEPT !.logged =
                             Append(@, LogRecord(level.val, msg.val))],
                  exc |-> "none"]
       ELSE IF sent.exc # "none" THEN sent
       ELSE process_event(sent.g, event)

\* Faulty variant: the newest event is taken instead of the oldest.
process_printer_events_lifo(g, queue, fault) ==
    IF queue = <<>> THEN [g |-> g, queue |-> queue, exc |-> "none"]
    ELSE LET r == drain_try(g, json_loads(queue[Len(queue)]), fault)
             rest == SubSeq(queue, 1, Len(queue) - 1)
         IN IF r.exc = "TypeError"
            THEN [g |-> Log(r.g, ERROR, "TypeError"), queue |-> rest,
                  exc |-> "none"]
            ELSE [g |-> r.g, queue |-> rest, exc |-> r.exc]

\* Faulty variant: the event is read but stays at the head of the queue.
process_printer_events_peek(g, queue, fault) ==
    IF queue = <<>> THEN [g |-> g, queue |-> queue, exc |-> "none"]
    ELSE LET r == drain_try(g, json_loads(Head(queue)), fault)
         IN IF r.exc = "TypeError"
            THEN [g |-> Log(r.g, ERROR, "TypeError"), queue |-> queue,
                  exc |-> "none"]
            ELSE [g |-> r.g, queue |-> queue, exc |-> r.exc]

\* Faulty variant: the head is handled and the rest of the queue is dropped.
process_printer_events_flush(g, queue, fault) ==
    IF queue = <<>> THEN [g |-> g, queue |-> queue, exc |-> "none"]
    ELSE LET r == drain_try(g, json_loads(Head(queue)), fault)
         IN IF r.exc = "TypeError"
            THEN [g |-> Log(r.g, ERROR, "TypeError"), queue |-> <<>>,
                  exc |-> "none"]
            ELSE [g |-> r.g, queue |-> <<>>, exc |-> r.exc]

process_printer_events(g, queue, fault) ==
    IF queue = <<>> THEN [g |-> g, queue |-> queue, exc |-> "none"]
    ELSE LET r == drain_try(g, json_loads(Head(queue)), fault)
         IN IF r.exc = "TypeError"
            THEN [g |-> Log(r.g, ERROR, "TypeError"), queue |-> Tail(queue),
                  exc |-> "none"]
            ELSE [g |-> r.g, queue |-> Tail(queue), exc |-> r.exc]

\* ------------------------------------------------------- MessageHandler
\* What the MessageHandler methods work on: the outbound queue, the
\* database and the gcode directory.  io is the condition of the file
\* system during the call:
\*   "ok"          every file operation succeeds
\*   "missing"     os.path.isfile(destination) is false
\*   "unreadable"  the file is there but open(destination, "r") raises
\*   "read_error"  the file opens but read() raises IOError
Store == [to_printer |-> to_printer, gcode_table |-> gcode_table,
          gcode_dir |-> gcode_dir, counters |-> counters, io |-> "ok"]

IOConditions == {"missing", "unreadable", "read_error"}

CommitStore(s) ==
    /\ to_printer' = s.to_printer
    /\ gcode_table' = s.gcode_table
    /\ gcode_dir' = s.gcode_dir
    /\ counters' = s.counters

Text(codepoints) == [t |-> "text", v |-> codepoints]
List(items) == [t |-> "list", v |-> items]

\* A keyword argument, or the default of the signature when it is omitted.
Arg(kwargs, name, default) ==
    IF name \in DOMAIN kwargs THEN kwargs[name] ELSE default

Command(method, params) ==
    json_dumps(Obj([method |-> Str(method), params |-> Obj(params)]))

\* Faulty variant: only the arguments that were given are sent.
set_temp_given_only(s, kwargs) ==
    [s |-> [s EXCEPT !.to_printer = Append(@, Command("set_temp", kwargs))],
     ret |-> Bool(TRUE), exc |-> "none"]

set_temp(s, kwargs) ==
    LET bed == Arg(kwargs, "bed", Null)
        nozzle1 == Arg(kwargs, "nozzle1", Null)
        nozzle2 == Arg(kwargs, "nozzle2", Null)
    IN [s |-> [s EXCEPT !.to_printer = Append(@, Command("set_temp",
                   [bed |-> bed, nozzle1 |-> nozzle1, nozzle2 |-> nozzle2]))],
        ret |-> Bool(TRUE), exc |-> "none"]

move_head(s, kwargs) ==
    LET x == Arg(kwargs, "x", Num(0))
        y == Arg(kwargs, "y", Num(0))
        z == Arg(kwargs, "z", Num(0))
    IN [s |-> [s EXCEPT !.to_printer = Append(@, Command("move_head",
                   [x |-> x, y |-> y, z |-> z]))],
        ret |-> Bool(TRUE), exc |-> "none"]

home_head(s, kwargs) ==
    LET x == Arg(kwargs, "x", Bool(TRUE))
        y == Arg(kwargs, "y", Bool(TRUE))
        z == Arg(kwargs, "z", Bool(TRUE))
    IN [s |-> [s EXCEPT !.to_printer = Append(@, Command("home_head",
                   [x |-> x, y |-> y, z |-> z]))],
        ret |-> Bool(TRUE), exc |-> "none"]

\* str.encode(): UTF-8, one byte below U+0080 and two below U+0800.
RECURSIVE encode(_)
encode(text) ==
    IF text = <<>> THEN <<>>
    ELSE LET c == Head(text)
         IN (IF c < 128 THEN <<c>> ELSE <<192 + (c \div 64), 128 + (c % 64)>>)
            \o encode(Tail(text))

RECURSIVE decode(_)
decode(bytes) ==
    IF bytes = <<>> THEN <<>>
    ELSE IF Head(bytes) < 128 THEN <<Head(bytes)>> \o decode(Tail(bytes))
    ELSE <<(Head(bytes) - 192) * 64 + (bytes[2] - 128)>>
         \o decode(Tail(Tail(bytes)))

\* Universal newlines of a file opened in mode "r": \r\n and \r read as \n.
RECURSIVE newlines(_)
newlines(text) ==
    IF text = <<>> THEN <<>>
    ELSE IF Head(text) = 13
    THEN <<10>> \o newlines(IF Len(text) > 1 /\ text[2] = 10
                            THEN Tail(Tail(text)) ELSE Tail(text))
    ELSE <<Head(text)>> \o newlines(Tail(text))

put_gcode_file(s, kwargs) ==
    LET payload_bytes == encode(kwargs.payload.v)
        payload_size == Len(payload_bytes)
        id == Len(s.gcode_table) + 1
        gcode_file == [id |-> id, name |-> kwargs.name, size |-> payload_size]
    IN [s |-> [s EXCEPT !.gcode_table = Append(@, gcode_file),
                        !.gcode_dir = [f \in DOMAIN @ \cup {id} |->
                                          IF f = id THEN payload_bytes ELSE @[f]]],
        ret |-> Obj([id |-> Num(id), name |-> kwargs.name,
                     size |-> Num(payload_size)]),
        exc |-> "none"]

get_gcode_file(s, kwargs) ==
    LET id == kwargs.id.v
        content == Arg(kwargs, "content", Bool(FALSE))
        found == {i \in DOMAIN s.gcode_table : s.gcode_table[i].id = id}
        result == s.gcode_table[CHOOSE i \in found : TRUE]
        gcode_file == [id |-> Num(result.id), name |-> result.name,
                       size |-> Num(result.size)]
    IN IF found = {} THEN [s |-> s, ret |-> Null, exc |-> "IndexError"]
       ELSE IF content.v
       THEN IF id \notin DOMAIN s.gcode_dir \/ s.io = "missing"
            THEN [s |-> s, ret |-> Null, exc |-> "IndexError"]
            ELSE IF s.io = "unreadable"
            THEN [s |-> s, ret |-> Null, exc |-> "PermissionError"]
            ELSE IF s.io = "read_error"
            THEN [s |-> s, ret |-> Null, exc |-> "IndexError"]
            ELSE [s |-> s, exc |-> "none",
                  ret |-> Obj([id |-> gcode_file.id, name |-> gcode_file.name,
                               size |-> gcode_file.size,
                               content |-> Text(newlines(decode(s.gcode_dir[id])))])]
       ELSE [s |-> s, ret |-> Obj(gcode_file), exc |-> "none"]

get_gcode_files(s, kwargs) ==
    [s |-> s, exc |-> "none",
     ret |-> Obj([gcode_files |-> List([i \in DOMAIN s.gcode_table |->
                 Obj([id |-> Num(s.gcode_table[i].id),
                      name |-> s.gcode_table[i].name,
                      size |-> Num(s.gcode_table[i].size)])])])]

get_counters(s, kwargs) ==
    [s |-> s, exc |-> "none",
     ret |-> Obj([counters |-> Obj([n \in DOMAIN s.counters |->
                                       Num(s.counters[n])])])]

\* Dispatcher(message_handler): the method of that name, called with the
\* request's params as keyword arguments.
Dispatch(s, request) ==
    CASE request.method = "set_temp" -> set_temp(s, request.params)
      [] request.method = "move_head" -> move_head(s, request.params)
      [] request.method = "home_head" -> home_head(s, request.params)
      [] request.method = "put_gcode_file" -> put_gcode_file(s, request.params)
      [] request.method = "get_gcode_file" -> get_gcode_file(s, request.params)
      [] request.method = "get_gcode_files" -> get_gcode_files(s, request.params)
      [] request.method = "get_counters" -> get_counters(s, request.params)

\* JSONRPCResponseManager.handle: the method's result, or the error made of
\* the exception it raised.
Response(r) ==
    IF r.exc = "none" THEN [t |-> "rpc", result |-> r.ret]
    ELSE [t |-> "rpc", error |-> Str(r.exc)]

\* Faulty variant: set_temp also writes the requested temperatures into the cache.
on_message_cache(g, s, c, request) ==
    LET r == Dispatch(s, request)
        g1 == IF request.method = "set_temp"
              THEN [g EXCEPT !.PRINTER.temp = Obj(request.params)]
              ELSE g
    IN [g |-> write_message(g1, c, Response(r)), s |-> r.s]

\* Faulty variant: a failure is sent to every registered connection.
on_message_broadcast_failure(g, s, c, request) ==
    LET r == Dispatch(s, request)
    IN [g |-> IF r.exc = "none" THEN write_message(g, c, Response(r))
              ELSE broadcast_message(g, Response(r), NoFault).g,
        s |-> r.s]

on_message(g, s, c, request) ==
    LET r == Dispatch(s, request)
    IN [g |-> write_message(g, c, Response(r)), s |-> r.s]

\* name.contains('uptime') on a name given as its characters.
Contains(name, sub) ==
    \E i \in 0..(Len(name) - Len(sub)) : SubSeq(name, i + 1, i + Len(sub)) = sub

Uptime == <<"u", "p", "t", "i", "m", "e">>

\* opengb.database.COUNTERS: an uptime counter and one that is not.
CounterNames == {Uptime, <<"p", "r", "i", "n", "t", "s">>}

update_counters(s, count) ==
    [s EXCEPT !.counters = [n \in DOMAIN @ |->
                               IF Contains(n, Uptime) THEN @[n] + 1 ELSE @[n]]]

\* json.dumps(PRINTER, cls=StateEncoder)
StatusBody(printer) ==
    json_dumps(Obj([state |-> StateEncoder(printer.state), temp |-> printer.temp,
                    progress |-> printer.progress]))

\* The keyword arguments a client may give: every subset of a full set.
Subsets(full) == {[k \in S |-> full[k]] : S \in SUBSET DOMAIN full}

Payloads == {<<71, 49, 10>>, <<71, 13, 10>>}

Requests ==
    {[method |-> "set_temp", params |-> p] :
        p \in Subsets([bed |-> Num(200), nozzle1 |-> Num(210), nozzle2 |-> Num(0)])}
    \cup {[method |-> "move_head", params |-> p] :
        p \in Subsets([x |-> Num(5), y |-> Num(-5), z |-> Num(1)])}
    \cup {[method |-> "home_head", params |-> p] :
        p \in Subsets([x |-> Bool(FALSE), y |-> Bool(TRUE), z |-> Bool(FALSE)])}
    \cup {[method |-> "put_gcode_file",
           params |-> [payload |-> Text(p), name |-> Str("test.gcode")]] :
        p \in Payloads}
    \cup {[method |-> "get_gcode_file", params |-> p] :
        p \in {[id |-> Num(1)], [id |-> Num(1), content |-> Bool(TRUE)],
               [id |-> Num(2), content |-> Bool(FALSE)]}}
    \cup {[method |-> "get_gcode_files", params |-> <<>>],
          [method |-> "get_counters", params |-> <<>>]}

BasicRequests ==
    {[method |-> "set_temp", params |-> [bed |-> Num(200)]],
     [method |-> "move_head", params |-> [x |-> Num(5)]],
     [method |-> "home_head", params |-> <<>>],
     [method |-> "put_gcode_file",
      params |-> [payload |-> Text(<<71, 49, 10>>), name |-> Str("test.gcode")]],
     [method |-> "get_gcode_file", params |-> [id |-> Num(1)]],
     [method |-> "get_gcode_files", params |-> <<>>],
     [method |-> "get_counters", params |-> <<>>]}

\* Uploads, and fetches of the first two ids and of an id that is never given.
FileRequests ==
    {[method |-> "put_gcode_file",
      params |-> [payload |-> Text(p), name |-> Str("test.gcode")]] :
        p \in Payloads}
    \cup {[method |-> "get_gcode_file", params |-> p] :
        p \in {[id |-> Num(i), content |-> Bool(b)] :
                 i \in {1, 2, 9}, b \in BOOLEAN}}

FetchRequests == {r \in FileRequests : r.method = "get_gcode_file"}

CommandRequests ==
    {r \in Requests : r.method \in {"set_temp", "move_head", "home_head"}}

CoreEvents == {
    Ev("state_change", ObjText(<< <<"new", Str("READY")>> >>)),
    Ev("state_change", ObjText(<< <<"new", Str("PRINTING")>> >>)),
    Ev("temp_update", ObjText(<< <<"bed", Num(60)>>, <<"nozzle1", Num(200)>>,
                                 <<"nozzle2", Num(0)>> >>)),
    Ev("log", ObjText(<< <<"level", Num(INFO)>>, <<"msg", Str("m")>> >>)) }

\* state_change events with any token: known states in any order, a string
\* that names no state, a number and null.
Tokens == {Str("READY"), Str("PRINTING"), Str("DISCONNECTED"), Str("BOGUS"),
           Num(7), Null}

TokenEvents == {Ev("state_change", ObjText(<< <<"new", t>> >>)) : t \in Tokens}

\* ---------------------------------------------------------------- actions
Init ==
    /\ from_printer = <<>>
    /\ to_printer = <<>>
    /\ PRINTER = [state |-> DISCONNECTED,
                  temp |-> Obj([bed |-> Num(0), nozzle1 |-> Num(0),
                                nozzle2 |-> Num(0)]),
                  progress |-> Obj([current |-> Num(0), total |-> Num(0)])]
    /\ CLIENTS = <<>>
    /\ opened = {}
    /\ received = [c \in Conns |-> <<>>]
    /\ logged = <<>>
    /\ drained = <<>>
    /\ exc = "none"
    /\ gcode_table = <<>>
    /\ gcode_dir = <<>>
    /\ counters = [n \in CounterNames |-> 0]
    /\ http_out = Null
    /\ handled = <<>>
    /\ env = NoFault

\* The printer process puts an event on from_printer.
WorkerPut(w) ==
    /\ Len(drained) + Len(from_printer) < MaxEvents
    /\ from_printer' = Append(from_printer, w)
    /\ UNCHANGED <<to_printer, PRINTER, CLIENTS, opened, received, logged,
                   drained, exc, gcode_table, gcode_dir, counters, http_out,
                   handled, env>>

\* One run of the PeriodicCallback around process_printer_events.
DrainWith(f) ==
    LET r == process_printer_events(Globals, from_printer, f)
    IN /\ Commit(r.g)
       /\ from_printer' = r.queue
       /\ drained' = IF from_printer = <<>> THEN drained
                     ELSE Append(drained, Head(from_printer))
       /\ exc' = r.exc
       /\ env' = f
       /\ UNCHANGED <<to_printer, opened, gcode_table, gcode_dir, counters,
                      http_out, handled>>

Drain == DrainWith(NoFault)

\* A run of the drain task during which the transport of some registered
\* connections fails, or some registered connections disconnect while they
\* are written to.
Faults ==
    {f \in [failing : SUBSET Conns, closing : SUBSET Conns] :
        /\ f # NoFault
        /\ f.failing \cap f.closing = {}
        /\ \A c \in f.failing \cup f.closing : \E i \in DOMAIN CLIENTS : CLIENTS[i] = c}

DrainFault == \E f \in Faults : DrainWith(f)

Registered(c) == \E i \in DOMAIN CLIENTS : CLIENTS[i] = c

\* A new websocket connection: tornado builds a fresh handler and calls open.
Open ==
    /\ Cardinality(opened) < MaxConns
    /\ LET c == Cardinality(opened) + 1
       IN /\ Commit(open(Globals, c))
          /\ opened' = opened \cup {c}
    /\ exc' = "none"
    /\ UNCHANGED <<from_printer, to_printer, drained, gcode_table, gcode_dir,
                   counters, http_out, handled, env>>

\* The connection of a registered handler closes: tornado calls on_close.
Close(c) ==
    /\ Registered(c)
    /\ Commit(on_close(Globals, c))
    /\ exc' = "none"
    /\ UNCHANGED <<from_printer, to_printer, opened, drained, gcode_table,
                   gcode_dir, counters, http_out, handled, env>>

\* A registered connection sends a JSON-RPC request.
OnMessage(c, request, max) ==
    /\ Registered(c)
    /\ Len(handled) < max
    /\ LET r == on_message(Globals, Store, c, request)
       IN Commit(r.g) /\ CommitStore(r.s)
    /\ handled' = Append(handled, [conn |-> c, request |-> request])
    /\ exc' = "none"
    /\ UNCHANGED <<from_printer, opened, drained, http_out, env>>

\* A registered connection sends a fetch while the file system is in
\* condition io.
OnMessageIO(c, request, io, max) ==
    /\ Registered(c)
    /\ Len(handled) < max
    /\ LET r == on_message(Globals, [Store EXCEPT !.io = io], c, request)
       IN Commit(r.g) /\ CommitStore(r.s)
    /\ handled' = Append(handled, [conn |-> c, request |-> request, io |-> io])
    /\ exc' = "none"
    /\ UNCHANGED <<from_printer, opened, drained, http_out, env>>

\* GET /api/status
StatusGet ==
    /\ http_out' = StatusBody(PRINTER)
    /\ exc' = "none"
    /\ UNCHANGED <<from_printer, to_printer, PRINTER, CLIENTS, opened, received,
                   logged, drained, gcode_table, gcode_dir, counters, handled,
                   env>>

\* One run of the PeriodicCallback around update_counters().
UpdateCounters ==
    /\ counters[Uptime] < MaxTicks
    /\ CommitStore(update_counters(Store, 1))
    /\ exc' = "none"
    /\ UNCHANGED <<from_printer, PRINTER, CLIENTS, opened, received, logged,
                   drained, http_out, handled>>
    /\ UNCHANGED env

\* A call update_counters(count).
UpdateCountersBy(count) ==
    /\ counters[Uptime] < MaxTicks
    /\ CommitStore(update_counters(Store, count))
    /\ exc' = "none"
    /\ UNCHANGED <<from_printer, PRINTER, CLIENTS, opened, received, logged,
                   drained, http_out, handled, env>>

\* The whole front end, with a few kinds of event and one request of each
\* method.
Next ==
    \/ \E w \in CoreEvents : WorkerPut(w)
    \/ Drain
    \/ Open
    \/ \E c \in Conns : Close(c)
    \/ \E c \in Conns, request \in BasicRequests : OnMessage(c, request, MaxReqs)
    \/ StatusGet
    \/ UpdateCounters

Spec == Init /\ [][Next]_vars

\* The event path, with every kind of event.
NextEvents ==
    \/ \E w \in WireEvents : WorkerPut(w)
    \/ Drain
    \/ Open
    \/ \E c \in Conns : Close(c)
    \/ StatusGet

SpecEvents == Init /\ [][NextEvents]_vars

\* The two ends of from_printer when no connection is open, with every kind
\* of event and the drain callback scheduled again and again: the
\* PeriodicCallback of main re-arms itself after every run, also after a run
\* that raised.
NextDrain ==
    \/ \E w \in WireEvents : WorkerPut(w)
    \/ Drain
    \/ StatusGet

SpecDrainFair == Init /\ [][NextDrain]_vars /\ WF_vars(Drain)

\* The event path, with state changes to any token.
NextTokens ==
    \/ \E w \in TokenEvents : WorkerPut(w)
    \/ Drain
    \/ Open
    \/ \E c \in Conns : Close(c)
    \/ StatusGet

SpecTokens == Init /\ [][NextTokens]_vars

\* The gcode files: uploads and fetches, with a file system that may fail.
NextFiles ==
    \/ Open
    \/ \E c \in Conns : Close(c)
    \/ \E c \in Conns, request \in FileRequests : OnMessage(c, request, MaxFileReqs)
    \/ \E c \in Conns, request \in FetchRequests, io \in IOConditions :
          OnMessageIO(c, request, io, MaxFileReqs)

SpecFiles == Init /\ [][NextFiles]_vars

\* The counters: update_counters with any step, and clients reading them.
NextCounters ==
    \/ \E count \in 1..MaxStep : UpdateCountersBy(count)
    \/ Open
    \/ \E c \in Conns : Close(c)
    \/ \E c \in Conns :
          OnMessage(c, [method |-> "get_counters", params |-> <<>>], MaxCmds)

SpecCounters == Init /\ [][NextCounters]_vars

\* The printer commands, with every choice of arguments.
NextCmd ==
    \/ Open
    \/ \E c \in Conns : Close(c)
    \/ \E c \in Conns, request \in CommandRequests : OnMessage(c, request, MaxCmds)

SpecCmd == Init /\ [][NextCmd]_vars

\* The event path when transports fail or connections drop during a
\* broadcast.
NextFault ==
    \/ \E w \in CoreEvents : WorkerPut(w)
    \/ Drain
    \/ DrainFault
    \/ Open
    \/ \E c \in Conns : Close(c)

SpecFault == Init /\ [][NextFault]_vars

\* ------------------------------------------------------------ properties
\* The drain task takes the head of from_printer in this step.
DrainStep ==
    /\ from_printer # <<>>
    /\ drained' = Append(drained, Head(from_printer))

HasKind(w) == LET e == json_loads(w) IN e.t = "obj" /\ "event" \in DOMAIN e.v
Kind(w) == json_loads(w).v.event

\* A state_change event that carries params.new.
CarriesNew(w) ==
    LET e == json_loads(w)
    IN /\ HasKind(w)
       /\ Kind(w) = Str("state_change")
       /\ "params" \in DOMAIN e.v
       /\ e.v.params.t = "obj"
       /\ "new" \in DOMAIN e.v.params.v
NewOf(w) == json_loads(w).v.params.v.new

BroadcastKind(w) == HasKind(w) /\ Kind(w) # Str("log")

\* Connection c is written exactly one more message in this step: message.
Delivered(c, message) ==
    /\ Len(received'[c]) = Len(received[c]) + 1
    /\ SubSeq(received'[c], 1, Len(received[c])) = received[c]
    /\ received'[c][Len(received'[c])].msg = message

\* The events (dicts) connection c has been written, in order.
EventsOf(c) ==
    LET es == SelectSeq(received[c], LAMBDA e : e.msg.t = "obj")
    IN [i \in 1..Len(es) |-> es[i].msg]

C3_LogNotBroadcast ==
    [][DrainStep /\ HasKind(Head(from_printer))
                 /\ Kind(Head(from_printer)) = Str("log")
       => /\ received' = received
          /\ PRINTER' = PRINTER
          /\ CLIENTS' = CLIENTS
          /\ Head(from_printer) \in WellFormedEvents
                => logged' = Append(logged,
                       LogRecord(json_loads(Head(from_printer)).v.params.v.level,
                                 json_loads(Head(from_printer)).v.params.v.msg))]_vars

C3_Witness ==
    /\ drained # <<>>
    /\ drained[Len(drained)] \in WellFormedEvents
    /\ Kind(drained[Len(drained)]) = Str("log")
    /\ Len(CLIENTS) = 2
    /\ \A c \in {1, 2} : Len(received[c]) = 1
    /\ logged # <<>>
    /\ logged[Len(logged)] = LogRecord(Num(INFO), Str("m"))

IsGreeting(m) ==
    /\ m.t = "objtext"
    /\ "cmd" \in DOMAIN json_loads(m).v
    /\ json_loads(m).v.cmd = Str("STATE")

\* C4: a connection that has opened was written its greeting first, the
\* greeting carries the state the snapshot held when it was written, and
\* nothing written later is a greeting; a connection that has not opened was
\* written nothing.
C4_Greeting ==
    \A c \in Conns :
        IF c \in opened
        THEN /\ Len(received[c]) >= 1
             /\ IsGreeting(received[c][1].msg)
             /\ received[c][1].msg
                  = ObjText(<< <<"cmd", Str("STATE")>>,
                               <<"new", received[c][1].seen.state.v>> >>)
             /\ \A i \in 2..Len(received[c]) : ~IsGreeting(received[c][i].msg)
        ELSE received[c] = <<>>

C4_Witness ==
    \E c \in opened :
        /\ Len(received[c]) >= 3
        /\ received[c][1].msg = ObjText(<< <<"cmd", Str("STATE")>>,
                                           <<"new", Str("READY")>> >>)
        /\ \E i, j \in 2..Len(received[c]) :
              received[c][i].msg.t = "rpc" /\ received[c][j].msg.t = "obj"
        /\ ~Registered(c)

\* C5 (as claimed): when write_message raises for some registered
\* connections during a broadcast, every other registered connection is
\* still written the event, nothing escapes the drain task and the registry
\* keeps the failing connections.
C5_BestEffort ==
    [][DrainStep /\ BroadcastKind(Head(from_printer))
                 /\ env'.failing # {} /\ env'.closing = {}
       => /\ \A c \in Conns :
                Registered(c) /\ c \notin env'.failing
                    => Delivered(c, json_loads(Head(from_printer)))
          /\ exc' = "none"
          /\ CLIENTS' = CLIENTS]_vars

\* C6 (as claimed): when a connection leaves the registry while it is
\* written to during a broadcast, every connection after it in the registry
\* is still written the event and nothing escapes.
C6_RemovalMidBroadcast ==
    [][DrainStep /\ BroadcastKind(Head(from_printer))
                 /\ env'.closing # {} /\ env'.failing = {}
       => /\ \A i, j \in DOMAIN CLIENTS :
                i < j /\ CLIENTS[i] \in env'.closing
                    => Delivered(CLIENTS[j], json_loads(Head(from_printer)))
          /\ exc' = "none"]_vars

\* C7 (as claimed): a drain of an event that lacks an expected field logs
\* an error, lets nothing escape, leaves the snapshot as it is and writes to
\* no connection.
C7_MalformedDropped ==
    [][DrainStep /\ Head(from_printer) \in MalformedEvents
       => /\ exc' = "none"
          /\ PRINTER' = PRINTER
          /\ received' = received
          /\ Len(logged') = Len(logged) + 1
          /\ logged'[Len(logged')].level = Num(ERROR)]_vars

\* C8: the snapshot changes only in a step in which the drain task takes
\* the head of from_printer, and that step touches neither the outbound
\* queue nor the store nor the status response.
C8_OnlyDrainWrites ==
    [][PRINTER' # PRINTER
       => /\ DrainStep
          /\ from_printer' = Tail(from_printer)
          /\ UNCHANGED <<to_printer, opened, gcode_table, gcode_dir, counters,
                         http_out, handled>>]_vars

C8_Witness ==
    /\ handled # <<>>
    /\ handled[1].request.method = "set_temp"
    /\ http_out # Null
    /\ counters[Uptime] > 0
    /\ opened # {}
    /\ \E c \in opened : ~Registered(c)
    /\ Len(drained) = 1
    /\ PRINTER.state = State(Str("READY"))
    /\ PRINTER.temp = Obj([bed |-> Num(0), nozzle1 |-> Num(0), nozzle2 |-> Num(0)])

Effectful(w) ==
    /\ HasKind(w)
    /\ Kind(w) \in {Str("state_change"), Str("temp_update"), Str("print_progress")}

\* C9: in a drain of a state_change, temp_update or print_progress event,
\* every registered connection is written while the snapshot still holds
\* its value from before the event, and a well-formed event is then applied.
C9_BroadcastBeforeCommit ==
    [][DrainStep /\ Effectful(Head(from_printer))
       => /\ \A c \in Conns :
                Registered(c)
                    => /\ Delivered(c, json_loads(Head(from_printer)))
                       /\ received'[c][Len(received'[c])].seen = PRINTER
          /\ Head(from_printer) \in WellFormedEvents
                => LET params == json_loads(Head(from_printer)).v.params
                   IN CASE Kind(Head(from_printer)) = Str("state_change")
                             -> PRINTER' = [PRINTER EXCEPT !.state = State(params.v.new)]
                        [] Kind(Head(from_printer)) = Str("temp_update")
                             -> PRINTER' = [PRINTER EXCEPT !.temp = params]
                        [] Kind(Head(from_printer)) = Str("print_progress")
                             -> PRINTER' = [PRINTER EXCEPT !.progress = params]]_vars

C9_Witness ==
    \E c \in Conns :
        /\ Registered(c)
        /\ Len(received[c]) >= 2
        /\ LET e == received[c][Len(received[c])]
           IN /\ e.msg = json_loads(Ev("temp_update",
                             ObjText(<< <<"bed", Num(60)>>, <<"nozzle1", Num(200)>>,
                                        <<"nozzle2", Num(0)>> >>)))
              /\ e.seen.temp = Obj([bed |-> Num(0), nozzle1 |-> Num(0),
                                    nozzle2 |-> Num(0)])
              /\ PRINTER.temp = e.msg.v.params

ArgNames(method) ==
    IF method = "set_temp" THEN <<"bed", "nozzle1", "nozzle2">>
    ELSE <<"x", "y", "z">>

DocumentedDefault(method) ==
    CASE method = "set_temp" -> Null
      [] method = "move_head" -> Num(0)
      [] method = "home_head" -> Bool(TRUE)

\* The Command the documentation promises for a request.
ExpectedCommand(request) ==
    LET names == ArgNames(request.method)
    IN ObjText(<< <<"method", Str(request.method)>>,
                  <<"params", ObjText([i \in 1..3 |->
                      <<names[i],
                        IF names[i] \in DOMAIN request.params
                        THEN request.params[names[i]]
                        ELSE DocumentedDefault(request.method)>>])>> >>)

\* C10: the outbound queue holds, in the order of the calls, exactly one
\* Command for every set_temp, move_head and home_head handled so far, with
\* the given values and the documented defaults, and every call returned
\* true.
C10_CommandEnqueued ==
    /\ Len(to_printer) = Len(handled)
    /\ \A i \in DOMAIN handled :
          to_printer[i] = ExpectedCommand(handled[i].request)
    /\ \A c \in Conns : \A i \in DOMAIN received[c] :
          received[c][i].msg.t = "rpc"
              => received[c][i].msg = [t |-> "rpc", result |-> Bool(TRUE)]

C10_Witness ==
    /\ Len(to_printer) = 2
    /\ handled[1].request.method = "home_head"
    /\ to_printer[2] = ObjText(<< <<"method", Str("set_temp")>>,
                                  <<"params", ObjText(<< <<"bed", Num(200)>>,
                                                         <<"nozzle1", Null>>,
                                                         <<"nozzle2", Null>> >>)>> >>)
    /\ \E c \in Conns : Len(SelectSeq(received[c], LAMBDA e : e.msg.t = "rpc")) = 2

\* Everything the printer process has put on from_printer so far, in order:
\* what the drain task has taken followed by what is still queued.
Enqueued == drained \o from_printer

\* C11: what has been taken followed by what is queued is always the
\* sequence of the events as they were put, so every step either puts one
\* event at the end or moves the head of the queue to the taken ones (each
\* event is taken once, in the order of the puts); and with the drain
\* callback scheduled again and again, the k-th event put is eventually taken.
C11_ExactlyOnceInOrder ==
    /\ [][\/ /\ \E w \in WireEvents : Enqueued' = Append(Enqueued, w)
             /\ drained' = drained
          \/ /\ Enqueued' = Enqueued
             /\ \/ drained' = drained
                \/ /\ from_printer # <<>>
                   /\ drained' = Append(drained, Head(from_printer))
                   /\ from_printer' = Tail(from_printer)]_vars
    /\ \A k \in 1..MaxEvents : (Len(Enqueued) >= k) ~> (Len(drained) >= k)

C11_Witness ==
    /\ Len(drained) = 2
    /\ from_printer = <<>>
    /\ drained[1] # drained[2]
    /\ drained[1] \in MalformedEvents
    /\ exc = "none"

KindIs(w, kind) == HasKind(w) /\ Kind(w) = Str(kind)

\* C13: a drain changes at most the field of the snapshot that belongs to
\* the kind of the event: state for state_change, temp for temp_update,
\* progress for print_progress, and nothing for any other event; a z_change
\* or an event of an unlisted kind lets nothing escape.
C13_FieldFrame ==
    [][DrainStep
       => LET w == Head(from_printer)
          IN /\ KindIs(w, "state_change")
                   => PRINTER'.temp = PRINTER.temp
                      /\ PRINTER'.progress = PRINTER.progress
             /\ KindIs(w, "temp_update")
                   => PRINTER'.state = PRINTER.state
                      /\ PRINTER'.progress = PRINTER.progress
             /\ KindIs(w, "print_progress")
                   => PRINTER'.state = PRINTER.state
                      /\ PRINTER'.temp = PRINTER.temp
             /\ ~Effectful(w) => PRINTER' = PRINTER
             /\ HasKind(w) /\ ~Effectful(w) /\ ~KindIs(w, "log")
                   => exc' = "none"]_vars

C13_Witness ==
    /\ Len(drained) = 2
    /\ KindIs(drained[1], "print_progress")
    /\ KindIs(drained[2], "z_change")
    /\ PRINTER.progress = Obj([current |-> Num(1), total |-> Num(2)])
    /\ PRINTER.state = DISCONNECTED
    /\ exc = "none"
    /\ \E c \in Conns : Registered(c) /\ Len(EventsOf(c)) = 2

\* The request handled in this step, the connection it came from and the
\* condition of the file system during it.
Handles(c, request, io) ==
    \/ io = "ok" /\ handled' = Append(handled, [conn |-> c, request |-> request])
    \/ handled' = Append(handled, [conn |-> c, request |-> request, io |-> io])

\* The last message connection c has been written after this step.
Answer(c) == received'[c][Len(received'[c])].msg

HasRecord(id) == \E i \in DOMAIN gcode_table : gcode_table[i].id = id.v

WantsContent(request) ==
    "content" \in DOMAIN request.params /\ request.params.content = Bool(TRUE)

\* C14 (as claimed): a fetch of an id without a record is answered with
\* IndexError whatever the content flag and the condition of the file
\* system, and a fetch with content of a record whose file is missing or
\* cannot be read is answered with IndexError too.
C14_NotFoundOnly ==
    [][\A c \in Conns, request \in FetchRequests, io \in IOConditions \cup {"ok"} :
          Handles(c, request, io)
          => /\ ~HasRecord(request.params.id)
                   => Answer(c) = [t |-> "rpc", error |-> Str("IndexError")]
             /\ HasRecord(request.params.id) /\ WantsContent(request)
                   /\ io \in IOConditions
                   => Answer(c) = [t |-> "rpc", error |-> Str("IndexError")]]_vars

IsPut(h) == h.request.method = "put_gcode_file"

\* The payload whose upload was given the id: ids are handed out in the
\* order of the uploads, starting at 1.
UploadOf(id) == SelectSeq(handled, IsPut)[id.v].request.params

\* C15 (as claimed): an upload is answered with a fresh id, the name and the
\* byte length of the payload, and a later fetch with content of that id is
\* answered with the same id, name and size and with the uploaded payload.
C15_RoundTrip ==
    [][\A c \in Conns, request \in FileRequests :
          Handles(c, request, "ok")
          => /\ IsPut([request |-> request])
                   => /\ ~HasRecord(Answer(c).result.v.id)
                      /\ Answer(c) = [t |-> "rpc", result |->
                            Obj([id |-> Num(Len(gcode_table) + 1),
                                 name |-> request.params.name,
                                 size |-> Num(Len(encode(request.params.payload.v)))])]
             /\ ~IsPut([request |-> request]) /\ HasRecord(request.params.id)
                   /\ WantsContent(request)
                   => Answer(c) = [t |-> "rpc", result |->
                         Obj([id |-> request.params.id,
                              name |-> UploadOf(request.params.id).name,
                              size |-> Num(Len(encode(
                                  UploadOf(request.params.id).payload.v))),
                              content |-> UploadOf(request.params.id).payload])]]_vars

IsFailure(m) == m.t = "rpc" /\ "error" \in DOMAIN m

\* C16: a step that handles a request writes exactly one message, the
\* response, and writes it to the connection the request came from; no
\* other step writes a response to any connection.
C16_ResponseToSenderOnly ==
    [][/\ handled' # handled
          => LET h == handled'[Len(handled')]
             IN \A c \in Conns :
                   IF c = h.conn
                   THEN /\ Len(received'[c]) = Len(received[c]) + 1
                        /\ SubSeq(received'[c], 1, Len(received[c])) = received[c]
                        /\ Answer(c).t = "rpc"
                   ELSE received'[c] = received[c]
       /\ handled' = handled
          => \A c \in Conns :
                \A i \in (Len(received[c]) + 1)..Len(received'[c]) :
                    received'[c][i].msg.t # "rpc"]_vars

C16_Witness ==
    /\ Len(CLIENTS) = 2
    /\ Len(handled) = 1
    /\ \E c, d \in Conns :
          /\ c = handled[1].conn
          /\ d # c
          /\ \E i \in DOMAIN received[c] : IsFailure(received[c][i].msg)
          /\ \A i \in DOMAIN received[d] : received[d][i].msg.t # "rpc"
          /\ Len(EventsOf(c)) = 1 /\ Len(EventsOf(d)) = 1

\* C17 (as claimed): a run update_counters(count) adds count to every
\* counter whose name contains 'uptime' and leaves the other counters as
\* they are.
C17_StepIsCount ==
    [][\A count \in 1..MaxStep :
          UpdateCountersBy(count)
          => counters' = [n \in DOMAIN counters |->
                             IF Contains(n, Uptime) THEN counters[n] + count
                             ELSE counters[n]]]_vars

\* C18: one run of the drain callback on an empty queue changes neither
\* the queue nor the snapshot nor the registry nor what any connection has
\* been written nor the log; on a queue of n >= 1 events it removes exactly
\* the head and leaves the other n - 1 queued in their order.
C18_AtMostOne ==
    [][Drain
       => IF from_printer = <<>>
          THEN UNCHANGED <<from_printer, PRINTER, CLIENTS, received, logged,
                           drained>>
          ELSE /\ Len(from_printer') = Len(from_printer) - 1
               /\ from_printer' = Tail(from_printer)
               /\ drained' = Append(drained, Head(from_printer))]_vars

C18_Witness ==
    /\ Len(drained) = 1
    /\ Len(from_printer) = 1
    /\ drained[1] = Ev("temp_update",
                       ObjText(<< <<"bed", Num(60)>>, <<"nozzle1", Num(200)>>,
                                  <<"nozzle2", Num(0)>> >>))
    /\ PRINTER.temp = json_loads(drained[1]).v.params
    /\ CarriesNew(from_printer[1])
    /\ PRINTER.state = DISCONNECTED

\* Entries of what connection c has been written that this step added.
NewEntries(c) ==
    {received'[c][i] : i \in (Len(received[c]) + 1)..Len(received'[c])}

ColdSnapshot ==
    [state |-> DISCONNECTED,
     temp |-> Obj([bed |-> Num(0), nozzle1 |-> Num(0), nozzle2 |-> Num(0)]),
     progress |-> Obj([current |-> Num(0), total |-> Num(0)])]

HasParams(w) == HasKind(w) /\ "params" \in DOMAIN json_loads(w).v

\* The snapshot p once it reflects the event w.
Reflecting(p, w) ==
    IF CarriesNew(w) THEN [p EXCEPT !.state = State(NewOf(w))]
    ELSE IF KindIs(w, "temp_update") /\ HasParams(w)
    THEN [p EXCEPT !.temp = json_loads(w).v.params]
    ELSE IF KindIs(w, "print_progress") /\ HasParams(w)
    THEN [p EXCEPT !.progress = json_loads(w).v.params]
    ELSE p

RECURSIVE ReflectingAll(_, _)
ReflectingAll(p, ws) ==
    IF ws = <<>> THEN p ELSE ReflectingAll(Reflecting(p, Head(ws)), Tail(ws))

====
